---- MODULE Spec2Model ----
(***************************************************************************)
(* Model of the notification object (sel4_ipc/src/notification.rs), of the *)
(* aarch64 ASID directory (sel4_vspace/src/arch/aarch64/asid.rs) and of    *)
(* the aarch64 fault entry points (kernel/src/arch/aarch64/exception.rs).  *)
(*                                                                         *)
(* Pointers are small naturals, 0 is the null pointer.  Threads are        *)
(* 1..NumThreads, notifications 1..NumNtfns.                               *)
(***************************************************************************)
EXTENDS Integers, Sequences, FiniteSets, TLC

\* ---------------------------------------------------------------- bounds
NumThreads == 3
NumNtfns == 2
NumBadgeBits == 3
\* ASID directory, scaled down: the kernel's asidHighBits and asidLowBits
asidHighBits == 1
asidLowBits == 2
\* ASID pool objects and translation roots (VSpaces) that exist
NumPools == 2
NumRoots == 2
\* values a machine word takes in the fault handlers: 0..NumWords-1
NumWords == 2
\* fault-kind selectors handleVMFaultEvent is called with: 0..NumFaultKinds-1
NumFaultKinds == 3

\* ------------------------------------------------------ program constants
asid_map_asid_map_none == 0
asid_map_asid_map_vspace == 1
IT_ASID == 1
ARMDataAbort == 0
ARMPrefetchAbort == 1

Threads == 1..NumThreads
Ntfns == 1..NumNtfns
RECURSIVE Pow2(_)
Pow2(k) == IF k = 0 THEN 1 ELSE 2 * Pow2(k - 1)
\* the badges send_signal is called with: one per bit
Badges == {Pow2(i) : i \in 0..(NumBadgeBits - 1)}

VARIABLES
    \* notification_t fields, per notification
    ntfn_state, queue_head, queue_tail, msg_identifier, bound_tcb,
    \* tcb_t fields, per thread
    tcbState, blocking_object, tcbEPNext, tcbEPPrev,
    \* the last handler that ran, then the calls it made to its collaborators
    \* (scheduler, register file, cancel_ipc), in order
    events,
    \* history: per notification, the OR of the badges of the signals that
    \* woke nobody since the message word was last consumed
    pending,
    \* history: per notification, the threads blocked on it in arrival order
    waitOrder,
    \* armKSASIDTable: directory slot -> address of an ASID pool, 0 if empty
    armKSASIDTable,
    \* the memory of every ASID pool object: address -> slot -> asid_map_t
    pool_mem,
    \* hardware: the ASIDs that have entries in the TLB
    tlb,
    \* hardware: the active user translation root, [asid, root]
    ttbr,
    \* the ASID handler in progress, [fn |-> "none"] between handlers
    asid_op,
    \* the last ASID handler, then the hardware operations it did, in order
    hw_log,
    \* the kernel's global fault record
    current_fault,
    \* hardware: fault-address and syndrome registers
    far, esr,
    \* the saved FaultIP register of every thread
    FaultIP,
    \* the current thread
    ksCurThread,
    \* the last fault entry point, then the calls and global writes it made,
    \* in order
    fault_log

ntfn_vars == <<ntfn_state, queue_head, queue_tail, msg_identifier, bound_tcb>>
tcb_vars == <<tcbState, blocking_object, tcbEPNext, tcbEPPrev>>
hist_vars == <<events, pending, waitOrder>>
ipc_vars == <<ntfn_vars, tcb_vars, hist_vars>>
asid_vars == <<armKSASIDTable, pool_mem, tlb, ttbr, asid_op, hw_log>>
fault_vars == <<current_fault, far, esr, FaultIP, ksCurThread, fault_log>>
vars == <<ipc_vars, asid_vars, fault_vars>>

\* seL4_Fault_t values
NullFault == [type |-> "NullFault", a |-> 0, b |-> 0, c |-> 0]

\* ------------------------------------------------------------ pure helpers
\* usize `|` (notification.rs:176); badges are far below 2^64, no wrap-around
RECURSIVE BitOr(_, _)
BitOr(a, b) ==
    IF a = 0 THEN b
    ELSE IF b = 0 THEN a
    ELSE (IF a % 2 = 1 \/ b % 2 = 1 THEN 1 ELSE 0) + 2 * BitOr(a \div 2, b \div 2)

Ev(name, n, t, b) == <<name, n, t, b>>

\* tcb_queue_t::ep_append: link tcb behind the tail
ep_append(q, tcb, next, prev) ==
    LET next1 == IF q.head = 0 THEN next ELSE [next EXCEPT ![q.tail] = tcb]
    IN  [head |-> IF q.head = 0 THEN tcb ELSE q.head,
         tail |-> tcb,
         next |-> [next1 EXCEPT ![tcb] = 0],
         prev |-> [prev EXCEPT ![tcb] = q.tail]]

\* tcb_queue_t::ep_dequeue: unlink tcb; tcb's own links are left as they are
ep_dequeue(q, tcb, next, prev) ==
    LET p == prev[tcb]
        x == next[tcb]
    IN  [head |-> IF p # 0 THEN q.head ELSE x,
         tail |-> IF x # 0 THEN q.tail ELSE p,
         next |-> IF p # 0 THEN [next EXCEPT ![p] = x] ELSE next,
         prev |-> IF x # 0 THEN [prev EXCEPT ![x] = p] ELSE prev]

\* notification_t::get_queue
get_queue(n) == [head |-> queue_head[n], tail |-> queue_tail[n]]

\* the queue of a notification as the sequence reached from its head
\* through tcbEPNext (at most NumThreads links are followed)
RECURSIVE Walk(_, _, _)
Walk(t, next, fuel) ==
    IF t = 0 \/ fuel = 0 THEN << >> ELSE <<t>> \o Walk(next[t], next, fuel - 1)
QueueSeq(n) == Walk(queue_head[n], tcbEPNext, NumThreads)
InQueue(t, n) == \E i \in 1..Len(QueueSeq(n)) : QueueSeq(n)[i] = t

\* ------------------------------------------------------------------- Init
Init ==
    /\ ntfn_state = [n \in Ntfns |-> "Idle"]
    /\ queue_head = [n \in Ntfns |-> 0]
    /\ queue_tail = [n \in Ntfns |-> 0]
    /\ msg_identifier = [n \in Ntfns |-> 0]
    /\ bound_tcb = [n \in Ntfns |-> 0]
    /\ tcbState = [t \in Threads |-> "Running"]
    /\ blocking_object = [t \in Threads |-> 0]
    /\ tcbEPNext = [t \in Threads |-> 0]
    /\ tcbEPPrev = [t \in Threads |-> 0]
    /\ events = << >>
    /\ pending = [n \in Ntfns |-> 0]
    /\ waitOrder = [n \in Ntfns |-> << >>]
    /\ armKSASIDTable = [i \in 0..(Pow2(asidHighBits) - 1) |-> 0]
    /\ pool_mem = [p \in 1..NumPools |->
                     [o \in 0..(Pow2(asidLowBits) - 1) |->
                        [type |-> asid_map_asid_map_none, vspace_root |-> 0]]]
    /\ tlb = {}
    /\ ttbr = [asid |-> 0, root |-> 0]
    /\ asid_op = [fn |-> "none"]
    /\ hw_log = << >>
    /\ current_fault = NullFault
    /\ far = 0
    /\ esr = 0
    /\ FaultIP = [t \in Threads |-> 0]
    /\ ksCurThread = 1
    /\ fault_log = << >>

\* --------------------------------------------------------- history update
\* the thread a handler offered to the scheduler, 0 if none
Woken(evs) ==
    IF \E i \in 1..Len(evs) : evs[i][1] = "possible_switch_to"
    THEN evs[CHOOSE i \in 1..Len(evs) : evs[i][1] = "possible_switch_to"][3]
    ELSE 0

StillBlockedOn(n, t) ==
    tcbState'[t] = "BlockedOnNotification" /\ blocking_object'[t] = n

\* waitOrder follows the thread states only, never the queue links
HistWait(arrived_n, arrived_t) ==
    waitOrder' = [n \in Ntfns |->
        SelectSeq(IF n = arrived_n THEN Append(waitOrder[n], arrived_t)
                  ELSE waitOrder[n],
                  LAMBDA t : StillBlockedOn(n, t))]

Panicked == \E i \in 1..Len(events) : events[i][1] = "panic"

\* ------------------------------------------------- notification handlers
active_keeps_stale_bits(n, badge) ==
    /\ ntfn_state' = [ntfn_state EXCEPT ![n] = "Active"]
    /\ msg_identifier' = [msg_identifier EXCEPT ![n] = BitOr(@, badge)]

\* notification_t::active
active(n, badge) ==
    /\ ntfn_state' = [ntfn_state EXCEPT ![n] = "Active"]
    /\ msg_identifier' = [msg_identifier EXCEPT ![n] = badge]

bound_receiver_any_blocked(n) ==
    IF bound_tcb[n] # 0 /\ tcbState[bound_tcb[n]] \in
                             {"BlockedOnReceive", "BlockedOnNotification"}
    THEN bound_tcb[n] ELSE 0

\* send_signal, Idle arm: the bound thread that takes the badge directly,
\* 0 when there is none
bound_receiver(n) ==
    IF bound_tcb[n] # 0 /\ tcbState[bound_tcb[n]] = "BlockedOnReceive"
    THEN bound_tcb[n] ELSE 0

waiting_dest_tail(n) == get_queue(n).tail

\* send_signal, Waiting arm: the thread that is dequeued
waiting_dest(n) == get_queue(n).head

\* send_signal, Active arm: the new message word
accumulate(n, badge) == BitOr(msg_identifier[n], badge)

send_never_idle(queue) == FALSE

\* send_signal, Waiting arm: does the notification go back to Idle
send_goes_idle(queue) == queue.head = 0

send_signal(n, badge) ==
    /\ \/ /\ ntfn_state[n] = "Idle"
          /\ LET tcb == bound_receiver(n) IN
             IF tcb # 0
             THEN /\ tcbState' = [tcbState EXCEPT ![tcb] = "Running"]
                  /\ events' = <<Ev("send_signal", n, 0, badge),
                                 Ev("cancel_ipc", n, tcb, 0),
                                 Ev("set_register", n, tcb, badge),
                                 Ev("possible_switch_to", n, tcb, 0)>>
                  /\ UNCHANGED <<ntfn_vars, blocking_object, tcbEPNext, tcbEPPrev>>
             ELSE /\ active(n, badge)
                  /\ events' = <<Ev("send_signal", n, 0, badge)>>
                  /\ UNCHANGED <<queue_head, queue_tail, bound_tcb, tcb_vars>>
       \/ /\ ntfn_state[n] = "Waiting"
          /\ LET dest == waiting_dest(n) IN
             IF dest # 0
             THEN LET queue == ep_dequeue(get_queue(n), dest, tcbEPNext, tcbEPPrev) IN
                  /\ queue_head' = [queue_head EXCEPT ![n] = queue.head]
                  /\ queue_tail' = [queue_tail EXCEPT ![n] = queue.tail]
                  /\ tcbEPNext' = queue.next
                  /\ tcbEPPrev' = queue.prev
                  /\ ntfn_state' = IF send_goes_idle(queue)
                                   THEN [ntfn_state EXCEPT ![n] = "Idle"]
                                   ELSE ntfn_state
                  /\ tcbState' = [tcbState EXCEPT ![dest] = "Running"]
                  /\ events' = <<Ev("send_signal", n, 0, badge),
                                 Ev("set_register", n, dest, badge),
                                 Ev("possible_switch_to", n, dest, 0)>>
                  /\ UNCHANGED <<msg_identifier, bound_tcb, blocking_object>>
             ELSE /\ events' = <<Ev("send_signal", n, 0, badge),
                                 Ev("panic", n, 0, 0)>>
                  /\ UNCHANGED <<ntfn_vars, tcb_vars>>
       \/ /\ ntfn_state[n] = "Active"
          /\ msg_identifier' = [msg_identifier EXCEPT ![n] = accumulate(n, badge)]
          /\ events' = <<Ev("send_signal", n, 0, badge)>>
          /\ UNCHANGED <<ntfn_state, queue_head, queue_tail, bound_tcb, tcb_vars>>
    /\ pending' = [pending EXCEPT ![n] =
                      IF Woken(events') = 0 THEN BitOr(pending[n], badge)
                      ELSE pending[n]]
    /\ HistWait(0, 0)

receive_register_writes_no_poll(n, recv_thread, is_blocking) ==
    IF ntfn_state[n] = "Active"
    THEN <<Ev("set_register", n, recv_thread, msg_identifier[n])>>
    ELSE << >>

\* receive_signal: the writes to the receiver's badge register
receive_register_writes(n, recv_thread, is_blocking) ==
    IF ntfn_state[n] = "Active"
    THEN <<Ev("set_register", n, recv_thread, msg_identifier[n])>>
    ELSE IF is_blocking THEN << >>
    ELSE <<Ev("set_register", n, recv_thread, 0)>>

receive_active_state_kept == "Active"

\* receive_signal, Active arm: the state the notification is left in
receive_active_state == "Idle"

receive_signal(n, recv_thread, is_blocking) ==
    /\ tcbState[recv_thread] = "Running"
    /\ events' = <<Ev("receive_signal", n, recv_thread, IF is_blocking THEN 1 ELSE 0)>>
                     \o receive_register_writes(n, recv_thread, is_blocking)
    /\ \/ /\ ntfn_state[n] \in {"Idle", "Waiting"}
          /\ IF is_blocking
             THEN LET queue == ep_append(get_queue(n), recv_thread, tcbEPNext, tcbEPPrev) IN
                  /\ blocking_object' = [blocking_object EXCEPT ![recv_thread] = n]
                  /\ tcbState' = [tcbState EXCEPT
                                    ![recv_thread] = "BlockedOnNotification"]
                  /\ tcbEPNext' = queue.next
                  /\ tcbEPPrev' = queue.prev
                  /\ ntfn_state' = [ntfn_state EXCEPT ![n] = "Waiting"]
                  /\ queue_head' = [queue_head EXCEPT ![n] = queue.head]
                  /\ queue_tail' = [queue_tail EXCEPT ![n] = queue.tail]
                  /\ UNCHANGED <<msg_identifier, bound_tcb>>
             ELSE UNCHANGED <<ntfn_vars, tcbState, blocking_object,
                              tcbEPNext, tcbEPPrev>>
          /\ UNCHANGED pending
       \/ /\ ntfn_state[n] = "Active"
          /\ ntfn_state' = [ntfn_state EXCEPT ![n] = receive_active_state]
          /\ UNCHANGED <<queue_head, queue_tail, msg_identifier, bound_tcb,
                         tcbState, blocking_object, tcbEPNext, tcbEPPrev>>
          /\ pending' = [pending EXCEPT ![n] = 0]
    /\ HistWait(n, recv_thread)

cancel_never_idle(queue) == FALSE

\* cancel_signal: does the notification go back to Idle
cancel_goes_idle(queue) == queue.head = 0

cancel_thread_state_restart == "Restart"

\* cancel_signal: the state the cancelled thread is left in
cancel_thread_state == "Inactive"

cancel_signal(n, tcb) ==
    /\ InQueue(tcb, n)
    /\ LET queue == ep_dequeue(get_queue(n), tcb, tcbEPNext, tcbEPPrev) IN
       /\ queue_head' = [queue_head EXCEPT ![n] = queue.head]
       /\ queue_tail' = [queue_tail EXCEPT ![n] = queue.tail]
       /\ tcbEPNext' = queue.next
       /\ tcbEPPrev' = queue.prev
       /\ ntfn_state' = IF cancel_goes_idle(queue)
                        THEN [ntfn_state EXCEPT ![n] = "Idle"]
                        ELSE ntfn_state
    /\ tcbState' = [tcbState EXCEPT ![tcb] = cancel_thread_state]
    /\ events' = <<Ev("cancel_signal", n, tcb, 0)>>
    /\ UNCHANGED <<msg_identifier, bound_tcb, blocking_object, pending>>
    /\ HistWait(0, 0)

RECURSIVE cancel_all_calls_per_thread(_, _)
cancel_all_calls_per_thread(n, ts) ==
    IF ts = << >> THEN << >>
    ELSE <<Ev("sched_enqueue", n, Head(ts), 0), Ev("rescheduleRequired", n, 0, 0)>>
             \o cancel_all_calls_per_thread(n, Tail(ts))

\* cacncel_all_signal: the scheduler calls made for the drained threads ts
cancel_all_calls(n, ts) ==
    [i \in 1..Len(ts) |-> Ev("sched_enqueue", n, ts[i], 0)]
        \o <<Ev("rescheduleRequired", n, 0, 0)>>

cancel_all_queue_kept(n) == get_queue(n)

\* cacncel_all_signal: the queue the notification is left with
cancel_all_queue(n) == [head |-> 0, tail |-> 0]

cancel_all_thread_state_kept == "BlockedOnNotification"

\* cacncel_all_signal: the state every drained thread is left in
cancel_all_thread_state == "Restart"

cacncel_all_signal(n) ==
    /\ IF ntfn_state[n] = "Waiting"
       THEN LET ts == Walk(queue_head[n], tcbEPNext, NumThreads) IN
            /\ ntfn_state' = [ntfn_state EXCEPT ![n] = "Idle"]
            /\ queue_head' = [queue_head EXCEPT ![n] = cancel_all_queue(n).head]
            /\ queue_tail' = [queue_tail EXCEPT ![n] = cancel_all_queue(n).tail]
            /\ tcbState' = [t \in Threads |->
                              IF \E i \in 1..Len(ts) : ts[i] = t
                              THEN cancel_all_thread_state ELSE tcbState[t]]
            /\ events' = <<Ev("cacncel_all_signal", n, 0, 0)>>
                             \o cancel_all_calls(n, ts)
       ELSE /\ events' = <<Ev("cacncel_all_signal", n, 0, 0)>>
            /\ UNCHANGED <<ntfn_state, queue_head, queue_tail, tcbState>>
    /\ UNCHANGED <<msg_identifier, bound_tcb, blocking_object,
                   tcbEPNext, tcbEPPrev, pending>>
    /\ HistWait(0, 0)

bind_tcb(n, tcb) ==
    /\ bound_tcb' = [bound_tcb EXCEPT ![n] = tcb]
    /\ events' = << >>
    /\ UNCHANGED <<ntfn_state, queue_head, queue_tail, msg_identifier,
                   tcb_vars, pending, waitOrder>>

unbind_tcb(n) ==
    /\ bound_tcb' = [bound_tcb EXCEPT ![n] = 0]
    /\ events' = << >>
    /\ UNCHANGED <<ntfn_state, queue_head, queue_tail, msg_identifier,
                   tcb_vars, pending, waitOrder>>

\* ----------------------------------------------------- the rest of the kernel
\* a Running thread blocks receiving on an endpoint (alone in its queue)
block_on_receive(tcb) ==
    /\ tcbState[tcb] = "Running"
    /\ tcbState' = [tcbState EXCEPT ![tcb] = "BlockedOnReceive"]
    /\ tcbEPNext' = [tcbEPNext EXCEPT ![tcb] = 0]
    /\ tcbEPPrev' = [tcbEPPrev EXCEPT ![tcb] = 0]
    /\ events' = << >>
    /\ UNCHANGED <<ntfn_vars, blocking_object, pending, waitOrder>>

\* a Restart or Inactive thread is resumed and runs again
activate(tcb) ==
    /\ tcbState[tcb] \in {"Restart", "Inactive"}
    /\ tcbState' = [tcbState EXCEPT ![tcb] = "Running"]
    /\ events' = << >>
    /\ UNCHANGED <<ntfn_vars, blocking_object, tcbEPNext, tcbEPPrev,
                   pending, waitOrder>>

\* a step of the IPC half of the kernel: none is taken after a panic
Ipc(A) == ~Panicked /\ A /\ UNCHANGED <<asid_vars, fault_vars>>

FirstNtfn == {n \in Ntfns : n = 1}
FirstThread == {t \in Threads : t = 1}

\* one notification, every thread, every badge; threads are interchangeable,
\* so the thread that may be bound is always the first
Next ==
    \/ \E n \in FirstNtfn, b \in Badges : Ipc(send_signal(n, b))
    \/ \E n \in FirstNtfn, t \in Threads, blk \in BOOLEAN :
          Ipc(receive_signal(n, t, blk))
    \/ \E n \in FirstNtfn, t \in Threads : Ipc(cancel_signal(n, t))
    \/ \E n \in FirstNtfn : Ipc(cacncel_all_signal(n))
    \/ \E n \in FirstNtfn, t \in FirstThread : Ipc(bind_tcb(n, t))
    \/ \E n \in FirstNtfn : Ipc(unbind_tcb(n))
    \/ \E t \in Threads : Ipc(block_on_receive(t))
    \/ \E t \in Threads : Ipc(activate(t))

Spec == Init /\ [][Next]_vars

\* as Spec with the two lowest badges; the first thread may also block on
\* another notification and be cancelled there
NextBound ==
    \/ \E n \in FirstNtfn, b \in {x \in Badges : x <= 2} : Ipc(send_signal(n, b))
    \/ \E n \in FirstNtfn, t \in Threads, blk \in BOOLEAN :
          Ipc(receive_signal(n, t, blk))
    \/ \E n \in FirstNtfn, t \in Threads : Ipc(cancel_signal(n, t))
    \/ \E n \in FirstNtfn : Ipc(cacncel_all_signal(n))
    \/ \E n \in FirstNtfn, t \in FirstThread : Ipc(bind_tcb(n, t))
    \/ \E n \in FirstNtfn : Ipc(unbind_tcb(n))
    \/ \E t \in Threads : Ipc(block_on_receive(t))
    \/ \E t \in Threads : Ipc(activate(t))
    \/ \E n \in Ntfns \ FirstNtfn, t \in FirstThread : Ipc(receive_signal(n, t, TRUE))
    \/ \E n \in Ntfns \ FirstNtfn, t \in FirstThread : Ipc(cancel_signal(n, t))

SpecBound == Init /\ [][NextBound]_vars

\* every notification and every thread, one badge, no bound threads; a
\* non-blocking receive reaches no notification or thread state that a
\* blocking one does not, so receives are blocking
NextMulti ==
    \/ \E n \in Ntfns, b \in {x \in Badges : x <= 1} : Ipc(send_signal(n, b))
    \/ \E n \in Ntfns, t \in Threads : Ipc(receive_signal(n, t, TRUE))
    \/ \E n \in Ntfns, t \in Threads : Ipc(cancel_signal(n, t))
    \/ \E n \in Ntfns : Ipc(cacncel_all_signal(n))
    \/ \E t \in Threads : Ipc(activate(t))

SpecMulti == Init /\ [][NextMulti]_vars

\* send_signal is also applied to the one notification word that no handler
\* produces, Waiting with an empty queue: the first notification starts
\* either fresh or as that word
InitPanic ==
    /\ ntfn_state \in {[n \in Ntfns |-> "Idle"],
                       [n \in Ntfns |-> IF n = 1 THEN "Waiting" ELSE "Idle"]}
    /\ queue_head = [n \in Ntfns |-> 0]
    /\ queue_tail = [n \in Ntfns |-> 0]
    /\ msg_identifier = [n \in Ntfns |-> 0]
    /\ bound_tcb = [n \in Ntfns |-> 0]
    /\ tcbState = [t \in Threads |-> "Running"]
    /\ blocking_object = [t \in Threads |-> 0]
    /\ tcbEPNext = [t \in Threads |-> 0]
    /\ tcbEPPrev = [t \in Threads |-> 0]
    /\ events = << >>
    /\ pending = [n \in Ntfns |-> 0]
    /\ waitOrder = [n \in Ntfns |-> << >>]
    /\ armKSASIDTable = [i \in 0..(Pow2(asidHighBits) - 1) |-> 0]
    /\ pool_mem = [p \in 1..NumPools |->
                     [o \in 0..(Pow2(asidLowBits) - 1) |->
                        [type |-> asid_map_asid_map_none, vspace_root |-> 0]]]
    /\ tlb = {}
    /\ ttbr = [asid |-> 0, root |-> 0]
    /\ asid_op = [fn |-> "none"]
    /\ hw_log = << >>
    /\ current_fault = NullFault
    /\ far = 0
    /\ esr = 0
    /\ FaultIP = [t \in Threads |-> 0]
    /\ ksCurThread = 1
    /\ fault_log = << >>

NextPanic ==
    \/ \E n \in FirstNtfn, b \in Badges : Ipc(send_signal(n, b))
    \/ \E n \in FirstNtfn, t \in Threads, blk \in BOOLEAN :
          Ipc(receive_signal(n, t, blk))
    \/ \E n \in FirstNtfn, t \in Threads : Ipc(cancel_signal(n, t))
    \/ \E n \in FirstNtfn : Ipc(cacncel_all_signal(n))
    \/ \E t \in Threads : Ipc(activate(t))

SpecPanic == InitPanic /\ [][NextPanic]_vars

\* ========================================================= ASID directory
ASIDs == 0..(Pow2(asidHighBits + asidLowBits) - 1)
DirSlots == 0..(Pow2(asidHighBits) - 1)
PoolSlots == 0..(Pow2(asidLowBits) - 1)
PoolPtrs == 1..NumPools
Roots == 1..NumRoots

\* asid >> asidLowBits
DirIndex(asid) == asid \div Pow2(asidLowBits)

SlotIndex_high_mask(asid) == asid % Pow2(asidHighBits)

\* asid & MASK!(asidLowBits)
SlotIndex(asid) == asid % Pow2(asidLowBits)

\* asid_map_t::new_none, asid_map_t::new_vspace
new_none == [type |-> asid_map_asid_map_none, vspace_root |-> 0]
new_vspace(root) == [type |-> asid_map_asid_map_vspace, vspace_root |-> root]

\* capabilities set_vm_root is given: a VSpace cap with its root and mapped
\* ASID, or a cap of another type
NullCap == [is_vspace |-> FALSE, root |-> 0, asid |-> 0]
VSpaceCap(root, asid) == [is_vspace |-> TRUE, root |-> root, asid |-> asid]

get_asid_pool_by_index(idx) == armKSASIDTable[idx]

\* Option<&asid_map_t>: << >> is None, <<m>> is Some(m)
find_map_for_asid(asid) ==
    LET poolPtr == get_asid_pool_by_index(DirIndex(asid)) IN
    IF poolPtr # 0 THEN <<pool_mem[poolPtr][SlotIndex(asid)]>> ELSE << >>

find_vspace_for_asid(asid) ==
    LET m == find_map_for_asid(asid) IN
    IF m # << >>
    THEN [status |-> "EXCEPTION_NONE",
          vspace_root |-> <<m[1].vspace_root>>,
          lookup_fault |-> "root_invalid"]
    ELSE [status |-> "EXCEPTION_LOOKUP_FAULT",
          vspace_root |-> << >>,
          lookup_fault |-> "root_invalid"]
\* set_vm_root: install the root of cap if its ASID still resolves to it,
\* the kernel's global user root otherwise
set_vm_root(cap) ==
    LET find_ret == find_vspace_for_asid(cap.asid) IN
    IF /\ cap.is_vspace
       /\ find_ret.status = "EXCEPTION_NONE"
       /\ find_ret.vspace_root = <<cap.root>>
    THEN [asid |-> cap.asid, root |-> cap.root]
    ELSE [asid |-> 0, root |-> 0]

HwEv(name, arg) == <<name, arg>>
Idle_op == [fn |-> "none"]

delete_asid_matches_any_root(asid, vspace) ==
    LET ptr == armKSASIDTable[DirIndex(asid)] IN
    /\ ptr # 0
    /\ pool_mem[ptr][SlotIndex(asid)].type = asid_map_asid_map_vspace

\* delete_asid: does the installed mapping match the caller's VSpace
delete_asid_matches(asid, vspace) ==
    LET ptr == armKSASIDTable[DirIndex(asid)] IN
    /\ ptr # 0
    /\ pool_mem[ptr][SlotIndex(asid)].type = asid_map_asid_map_vspace
    /\ pool_mem[ptr][SlotIndex(asid)].vspace_root = vspace

delete_asid_body_clear_first ==
    <<"clear_slot", "invalidate_local_tlb_asid", "set_vm_root">>

\* delete_asid: the statements run when the mapping matches, in order
delete_asid_body ==
    <<"invalidate_local_tlb_asid", "clear_slot", "set_vm_root">>

\* delete_asid_pool: does the caller's pool match the installed one
delete_asid_pool_matches(asid_base, pool) ==
    pool = get_asid_pool_by_index(DirIndex(asid_base))

\* delete_asid_pool: the statements run when the pool matches, in order
delete_asid_pool_body ==
    <<"invalidate_loop", "clear_dir", "set_vm_root">>

slot_is_invalidated_always(asid_map) == TRUE

\* delete_asid_pool: is the TLB invalidated for this slot of the pool
slot_is_invalidated(asid_map) == asid_map.type = asid_map_asid_map_vspace

\* entry of delete_asid: a mismatch returns Ok(()) at once
delete_asid(asid, vspace, cap) ==
    /\ asid_op = Idle_op
    /\ hw_log' = <<HwEv("delete_asid", 0)>>
    /\ asid_op' = IF delete_asid_matches(asid, vspace)
                  THEN [fn |-> "delete_asid", pc |-> 1, asid |-> asid,
                        vspace |-> vspace,
                        pool |-> armKSASIDTable[DirIndex(asid)],
                        cap |-> cap, offset |-> 0]
                  ELSE Idle_op
    /\ UNCHANGED <<armKSASIDTable, pool_mem, tlb, ttbr>>

\* entry of delete_asid_pool: a mismatch returns Ok(()) at once
delete_asid_pool(asid_base, pool, default_vspace_cap) ==
    /\ asid_op = Idle_op
    /\ hw_log' = <<HwEv("delete_asid_pool", 0)>>
    /\ asid_op' = IF delete_asid_pool_matches(asid_base, pool)
                  THEN [fn |-> "delete_asid_pool", pc |-> 1, asid |-> asid_base,
                        vspace |-> 0,
                        pool |-> pool, cap |-> default_vspace_cap, offset |-> 0]
                  ELSE Idle_op
    /\ UNCHANGED <<armKSASIDTable, pool_mem, tlb, ttbr>>

\* the statement the handler in progress is at
Body == IF asid_op.fn = "delete_asid" THEN delete_asid_body
        ELSE delete_asid_pool_body
Stmt == Body[asid_op.pc]
Advance == [asid_op EXCEPT !.pc = @ + 1]

\* invalidate_local_tlb_asid(asid), delete_asid line 73
stmt_invalidate ==
    /\ asid_op # Idle_op /\ Stmt = "invalidate_local_tlb_asid"
    /\ tlb' = tlb \ {asid_op.asid}
    /\ hw_log' = Append(hw_log, HwEv("invalidate_local_tlb_asid", asid_op.asid))
    /\ asid_op' = Advance
    /\ UNCHANGED <<armKSASIDTable, pool_mem, ttbr>>

\* pool[asid & MASK!(asidLowBits)] = asid_map_t::new_none(), delete_asid line 74
stmt_clear_slot ==
    /\ asid_op # Idle_op /\ Stmt = "clear_slot"
    /\ pool_mem' = [pool_mem EXCEPT
                      ![asid_op.pool][SlotIndex(asid_op.asid)] = new_none]
    /\ hw_log' = Append(hw_log, HwEv("clear_slot", asid_op.asid))
    /\ asid_op' = Advance
    /\ UNCHANGED <<armKSASIDTable, tlb, ttbr>>

\* one iteration of the loop of delete_asid_pool, lines 91-96
stmt_invalidate_loop ==
    /\ asid_op # Idle_op /\ Stmt = "invalidate_loop"
    /\ LET offset == asid_op.offset
           asid_map == pool_mem[asid_op.pool][offset]
           hit == slot_is_invalidated(asid_map)
       IN  /\ tlb' = IF hit THEN tlb \ {asid_op.asid + offset} ELSE tlb
           /\ hw_log' = IF hit
                        THEN Append(hw_log, HwEv("invalidate_local_tlb_asid",
                                                 asid_op.asid + offset))
                        ELSE hw_log
           /\ asid_op' = IF offset + 1 < Pow2(asidLowBits)
                         THEN [asid_op EXCEPT !.offset = offset + 1]
                         ELSE [asid_op EXCEPT !.offset = offset + 1, !.pc = @ + 1]
    /\ UNCHANGED <<armKSASIDTable, pool_mem, ttbr>>

\* set_asid_pool_by_index(asid_base >> asidLowBits, 0), delete_asid_pool line 97
stmt_clear_dir ==
    /\ asid_op # Idle_op /\ Stmt = "clear_dir"
    /\ armKSASIDTable' = [armKSASIDTable EXCEPT ![DirIndex(asid_op.asid)] = 0]
    /\ hw_log' = Append(hw_log, HwEv("clear_dir", DirIndex(asid_op.asid)))
    /\ asid_op' = Advance
    /\ UNCHANGED <<pool_mem, tlb, ttbr>>

\* return set_vm_root(cap), delete_asid line 75 and delete_asid_pool line 98
stmt_set_vm_root ==
    /\ asid_op # Idle_op /\ Stmt = "set_vm_root"
    /\ ttbr' = set_vm_root(asid_op.cap)
    /\ hw_log' = Append(hw_log, HwEv("set_vm_root", 0))
    /\ asid_op' = IF asid_op.pc = Len(Body) THEN Idle_op ELSE Advance
    /\ UNCHANGED <<armKSASIDTable, pool_mem, tlb>>

\* boot: the initial task's pool and VSpace, while the directory is unused
write_it_asid_pool(ap, it_vspace_root) ==
    /\ asid_op = Idle_op
    /\ \A i \in DirSlots : armKSASIDTable[i] = 0
    /\ \A p \in PoolPtrs, o \in PoolSlots : pool_mem[p][o] = new_none
    /\ pool_mem' = [pool_mem EXCEPT ![ap][IT_ASID] = new_vspace(it_vspace_root)]
    /\ armKSASIDTable' = [armKSASIDTable EXCEPT ![DirIndex(IT_ASID)] = ap]
    /\ hw_log' = <<HwEv("write_it_asid_pool", it_vspace_root)>>
    /\ UNCHANGED <<tlb, ttbr, asid_op>>

\* ---------------------------------------------- the rest of the kernel
\* a freshly retyped (zeroed) pool is assigned to an empty directory slot
assign_asid_pool(idx, p) ==
    /\ asid_op = Idle_op
    /\ armKSASIDTable[idx] = 0
    /\ \A i \in DirSlots : armKSASIDTable[i] # p
    /\ pool_mem' = [pool_mem EXCEPT ![p] = [o \in PoolSlots |-> new_none]]
    /\ armKSASIDTable' = [armKSASIDTable EXCEPT ![idx] = p]
    /\ hw_log' = << >>
    /\ UNCHANGED <<tlb, ttbr, asid_op>>

\* a VSpace that has no ASID is bound to a free ASID of an installed pool
assign_asid(asid, root) ==
    /\ asid_op = Idle_op
    /\ asid # 0
    /\ find_map_for_asid(asid) = <<new_none>>
    /\ \A a \in ASIDs : find_map_for_asid(a) # <<new_vspace(root)>>
    /\ pool_mem' = [pool_mem EXCEPT
                      ![armKSASIDTable[DirIndex(asid)]][SlotIndex(asid)] =
                          new_vspace(root)]
    /\ hw_log' = << >>
    /\ UNCHANGED <<armKSASIDTable, tlb, ttbr, asid_op>>

\* a context switch installs the root of the next thread's VSpace cap
switch_vm_root(cap) ==
    /\ asid_op = Idle_op
    /\ ttbr' = set_vm_root(cap)
    /\ hw_log' = << >>
    /\ UNCHANGED <<armKSASIDTable, pool_mem, tlb, asid_op>>

\* user code runs under the active root and fills the TLB for its ASID
user_run ==
    /\ asid_op = Idle_op
    /\ ttbr.asid # 0
    /\ tlb' = tlb \cup {ttbr.asid}
    /\ hw_log' = << >>
    /\ UNCHANGED <<armKSASIDTable, pool_mem, ttbr, asid_op>>

PoolBases == {a \in ASIDs : SlotIndex(a) = 0}

\* the VSpace caps a thread may hold: they name an ASID that is in use, for
\* the root installed there (valid) or for another root (stale)
Caps ==
    {NullCap} \cup
    {VSpaceCap(r, a) : r \in Roots,
                       a \in {x \in ASIDs : /\ find_map_for_asid(x) # << >>
                                             /\ find_map_for_asid(x)[1].type =
                                                  asid_map_asid_map_vspace}}

\* a step of the address-space half of the kernel
Asid(A) == A /\ UNCHANGED <<ipc_vars, fault_vars>>

AsidNext ==
    \/ \E asid \in ASIDs, vspace \in Roots, cap \in Caps :
          Asid(delete_asid(asid, vspace, cap))
    \/ \E base \in PoolBases, pool \in PoolPtrs, cap \in Caps :
          Asid(delete_asid_pool(base, pool, cap))
    \/ Asid(stmt_invalidate)
    \/ Asid(stmt_clear_slot)
    \/ Asid(stmt_invalidate_loop)
    \/ Asid(stmt_clear_dir)
    \/ Asid(stmt_set_vm_root)
    \/ \E ap \in PoolPtrs, root \in Roots : Asid(write_it_asid_pool(ap, root))
    \/ \E idx \in DirSlots, p \in PoolPtrs : Asid(assign_asid_pool(idx, p))
    \/ \E asid \in ASIDs, root \in Roots : Asid(assign_asid(asid, root))
    \/ \E cap \in Caps : Asid(switch_vm_root(cap))
    \/ Asid(user_run)

SpecAsid == Init /\ [][AsidNext]_vars

\* ========================================================== fault entry
Words == 0..(NumWords - 1)
FaultKinds == 0..(NumFaultKinds - 1)

\* seL4_Fault_t::new_user_exeception, seL4_Fault_t::new_vm_fault
new_user_exeception(w_a, w_b) ==
    [type |-> "UserException", a |-> w_a, b |-> w_b, c |-> 0]
new_vm_fault(addr, fault, prefetch) ==
    [type |-> "VMFault", a |-> addr, b |-> fault, c |-> prefetch]

get_far == far
get_esr == esr
get_currenct_thread == ksCurThread

FEv(name, thread, word, fault) == <<name, thread, word, fault>>

vm_fault_arm_default_prefetch(type_) ==
    IF type_ = ARMDataAbort THEN "ARMDataAbort" ELSE "ARMPrefetchAbort"

\* handle_vm_fault: the arm of the match that type_ selects
vm_fault_arm(type_) ==
    IF type_ = ARMDataAbort THEN "ARMDataAbort"
    ELSE IF type_ = ARMPrefetchAbort THEN "ARMPrefetchAbort"
    ELSE "_"

vm_fault_address_far(arm) == get_far

\* handle_vm_fault: the address put in the VMFault record
vm_fault_address(arm) ==
    IF arm = "ARMDataAbort" THEN get_far ELSE FaultIP[get_currenct_thread]

\* handle_vm_fault: the status returned and the record stored in
\* current_fault, or the panic of the default arm
handle_vm_fault(type_) ==
    LET arm == vm_fault_arm(type_) IN
    IF arm = "_"
    THEN [panic |-> TRUE, status |-> "none", fault |-> NullFault]
    ELSE [panic |-> FALSE,
          status |-> "EXCEPTION_FAULT",
          fault |-> new_vm_fault(vm_fault_address(arm), get_esr,
                                 IF arm = "ARMDataAbort" THEN 0 ELSE 1)]

handleUserLevelFault_schedule_first ==
    <<"current_fault", "schedule", "handle_fault", "activateThread", "return">>

\* handleUserLevelFault: its statements, in order
handleUserLevelFault_body ==
    <<"current_fault", "handle_fault", "schedule", "activateThread", "return">>

\* handleVMFaultEvent: its statements, in order
handleVMFaultEvent_body ==
    <<"handle_vm_fault", "handle_fault_if_status", "schedule", "activateThread",
      "return">>

\* one statement of a fault entry point, run on the accumulated effect acc
\* = [cf, cur, status, panic, log]; in = [rec, kind, next] are the record
\* built from the arguments, the selector, and the thread schedule() picks
FaultStmt(stmt, acc, in) ==
    IF acc.panic THEN acc
    ELSE IF stmt = "current_fault"
    THEN [acc EXCEPT !.cf = in.rec,
                     !.log = Append(@, FEv("current_fault", acc.cur, 0, in.rec))]
    ELSE IF stmt = "handle_vm_fault"
    THEN LET r == handle_vm_fault(in.kind) IN
         IF r.panic
         THEN [acc EXCEPT !.panic = TRUE,
                          !.log = Append(@, FEv("panic", acc.cur, in.kind, NullFault))]
         ELSE [acc EXCEPT !.cf = r.fault, !.status = r.status,
                          !.log = Append(@, FEv("current_fault", acc.cur, 0, r.fault))]
    ELSE IF stmt = "handle_fault" \/ (stmt = "handle_fault_if_status"
                                        /\ acc.status # "EXCEPTION_NONE")
    THEN [acc EXCEPT !.log = Append(@, FEv("handle_fault", acc.cur, 0, acc.cf))]
    ELSE IF stmt = "schedule"
    THEN [acc EXCEPT !.cur = in.next,
                     !.log = Append(@, FEv("schedule", acc.cur, 0, NullFault))]
    ELSE IF stmt = "activateThread"
    THEN [acc EXCEPT !.log = Append(@, FEv("activateThread", acc.cur, 0, NullFault))]
    ELSE IF stmt = "return"
    THEN [acc EXCEPT !.log = Append(@, FEv("EXCEPTION_NONE", acc.cur, 0, NullFault))]
    ELSE acc

RECURSIVE FaultRun(_, _, _, _)
FaultRun(body, i, acc, in) ==
    IF i > Len(body) THEN acc
    ELSE FaultRun(body, i + 1, FaultStmt(body[i], acc, in), in)

FaultEntry(header) ==
    [cf |-> current_fault, cur |-> ksCurThread, status |-> "EXCEPTION_NONE",
     panic |-> FALSE, log |-> <<header>>]

FaultPanicked == \E i \in 1..Len(fault_log) : fault_log[i][1] = "panic"

handleUserLevelFault(w_a, w_b, next) ==
    LET acc == FaultRun(handleUserLevelFault_body, 1,
                        FaultEntry(FEv("handleUserLevelFault", ksCurThread, 0,
                                       NullFault)),
                        [rec |-> new_user_exeception(w_a, w_b), kind |-> 0,
                         next |-> next])
    IN  /\ current_fault' = acc.cf
        /\ ksCurThread' = acc.cur
        /\ fault_log' = acc.log
        /\ UNCHANGED <<far, esr, FaultIP>>

handleVMFaultEvent(vm_faultType, next) ==
    LET acc == FaultRun(handleVMFaultEvent_body, 1,
                        FaultEntry(FEv("handleVMFaultEvent", ksCurThread,
                                       vm_faultType, NullFault)),
                        [rec |-> NullFault, kind |-> vm_faultType,
                         next |-> next])
    IN  /\ current_fault' = acc.cf
        /\ ksCurThread' = acc.cur
        /\ fault_log' = acc.log
        /\ UNCHANGED <<far, esr, FaultIP>>

\* ---------------------------------------------- the rest of the kernel
\* a trap: the hardware sets the fault registers and the entry code saves
\* the faulting instruction's address in the current thread
trap_entry(f, e, ip) ==
    /\ far' = f
    /\ esr' = e
    /\ FaultIP' = [FaultIP EXCEPT ![ksCurThread] = ip]
    /\ fault_log' = << >>
    /\ UNCHANGED <<current_fault, ksCurThread>>

\* a step of the fault half of the kernel: none is taken after a panic
Fault(A) == ~FaultPanicked /\ A /\ UNCHANGED <<ipc_vars, asid_vars>>

FaultNext ==
    \/ \E w_a \in Words, w_b \in Words, next \in Threads :
          Fault(handleUserLevelFault(w_a, w_b, next))
    \/ \E kind \in FaultKinds, next \in Threads :
          Fault(handleVMFaultEvent(kind, next))
    \/ \E f \in Words, e \in Words, ip \in Words : Fault(trap_entry(f, e, ip))

SpecFault == Init /\ [][FaultNext]_vars

\* ================================================================ claims
EvName(evs, i) == IF i <= Len(evs) THEN evs[i][1] ELSE "none"
Called(evs, name, n) == evs # << >> /\ evs[1][1] = name /\ evs[1][2] = n

\* C1: in every reachable state a notification is Waiting if and only if its
\* wait queue is non-empty (queue head # 0)
C1_WaitingIffQueued ==
    \A n \in Ntfns : (ntfn_state[n] = "Waiting") <=> (queue_head[n] # 0)

\* a cancel_signal that left two threads queued
C1_Witness ==
    /\ Called(events, "cancel_signal", 1)
    /\ ntfn_state[1] = "Waiting"
    /\ Len(QueueSeq(1)) = 2

\* C2: whenever a notification is Active its message word is the OR of the
\* badges of the signals that woke nobody since the word was last consumed
C2_BadgeAccumulation ==
    \A n \in Ntfns : ntfn_state[n] = "Active" => msg_identifier[n] = pending[n]

\* signals 1, 2 and 4 accumulated to 7
C2_Witness ==
    /\ Called(events, "send_signal", 1)
    /\ ntfn_state[1] = "Active"
    /\ msg_identifier[1] = 7

\* C3: a send_signal on a Waiting notification wakes exactly the thread that
\* has been blocked on it longest: that thread becomes Running and gets the
\* badge of this call, every other thread keeps its state, and the threads
\* behind it keep their order
C3_FIFO ==
    [][\A n \in Ntfns, b \in Badges :
         (events' # << >> /\ events'[1] = Ev("send_signal", n, 0, b)
            /\ ntfn_state[n] = "Waiting")
         => /\ waitOrder[n] # << >>
            /\ LET h == Head(waitOrder[n]) IN
               /\ h = queue_head[n]
               /\ events' = <<Ev("send_signal", n, 0, b),
                              Ev("set_register", n, h, b),
                              Ev("possible_switch_to", n, h, 0)>>
               /\ tcbState' = [tcbState EXCEPT ![h] = "Running"]
               /\ waitOrder'[n] = Tail(waitOrder[n])
               /\ QueueSeq(n)' = Tail(waitOrder[n])]_vars

\* the first of three blocked threads was woken, two are still waiting
C3_Witness ==
    /\ Called(events, "send_signal", 1)
    /\ EvName(events, 3) = "possible_switch_to"
    /\ Len(waitOrder[1]) = 2
    /\ ntfn_state[1] = "Waiting"

\* C9: cacncel_all_signal on a Waiting notification leaves it Idle with an
\* empty queue, sets every queued thread to Restart, sched-enqueues each once
\* in head-to-tail order and then calls rescheduleRequired once; on an Idle or
\* Active notification it changes nothing and asks for no reschedule
C9_BulkCancel ==
    [][\A n \in Ntfns :
         (events' # << >> /\ events'[1] = Ev("cacncel_all_signal", n, 0, 0))
         => IF ntfn_state[n] = "Waiting"
            THEN LET q == waitOrder[n] IN
                 /\ Len(q) >= 1
                 /\ ntfn_state'[n] = "Idle"
                 /\ queue_head'[n] = 0 /\ queue_tail'[n] = 0
                 /\ tcbState' = [t \in Threads |->
                                   IF \E i \in 1..Len(q) : q[i] = t
                                   THEN "Restart" ELSE tcbState[t]]
                 /\ events' = <<Ev("cacncel_all_signal", n, 0, 0)>>
                       \o [i \in 1..Len(q) |-> Ev("sched_enqueue", n, q[i], 0)]
                       \o <<Ev("rescheduleRequired", n, 0, 0)>>
            ELSE /\ events' = <<Ev("cacncel_all_signal", n, 0, 0)>>
                 /\ UNCHANGED <<ntfn_vars, tcb_vars>>]_vars

\* three queued threads were drained with a single reschedule request
C9_Witness ==
    /\ Called(events, "cacncel_all_signal", 1)
    /\ Len(events) = 5
    /\ EvName(events, 5) = "rescheduleRequired"
    /\ ntfn_state[1] = "Idle"

IsVSpaceAt(asid) ==
    /\ find_map_for_asid(asid) # << >>
    /\ find_map_for_asid(asid)[1].type = asid_map_asid_map_vspace
LogPos(name, arg) == {i \in 1..Len(hw_log) : hw_log[i] = HwEv(name, arg)}
LogNames(names) == {i \in 1..Len(hw_log) : hw_log[i][1] \in names}

\* C4: the TLB never holds entries for an ASID that has no VSpace mapping,
\* also in the middle of delete_asid and delete_asid_pool; every TLB
\* invalidation of a handler comes before it clears a slot or a directory
\* entry and before its set_vm_root; a cleared slot was invalidated first,
\* and so was every VSpace slot of a pool whose directory entry was cleared
C4_InvalidateFirst ==
    /\ \A a \in tlb : IsVSpaceAt(a)
    /\ \A i \in LogNames({"invalidate_local_tlb_asid"}),
          j \in LogNames({"clear_slot", "clear_dir", "set_vm_root"}) : i < j
    /\ \A a \in ASIDs :
          LogPos("clear_slot", a) # {} => LogPos("invalidate_local_tlb_asid", a) # {}
    /\ (asid_op.fn = "delete_asid_pool" /\ LogNames({"clear_dir"}) # {})
          => \A o \in PoolSlots :
                pool_mem[asid_op.pool][o].type = asid_map_asid_map_vspace
                => LogPos("invalidate_local_tlb_asid", asid_op.asid + o) # {}

\* delete_asid of the ASID the MMU runs under has invalidated the TLB and
\* is about to clear the slot
C4_Witness ==
    /\ asid_op.fn = "delete_asid"
    /\ Stmt = "clear_slot"
    /\ ttbr.asid = asid_op.asid
    /\ IsVSpaceAt(asid_op.asid)
    /\ LogPos("invalidate_local_tlb_asid", asid_op.asid) # {}

\* C5: once delete_asid has cleared the mapping of an ASID,
\* find_vspace_for_asid of that ASID reports a lookup fault
C5_DeleteThenLookupFault ==
    \A a \in ASIDs :
       (asid_op.fn = "none" /\ LogPos("delete_asid", 0) # {}
          /\ LogPos("clear_slot", a) # {})
       => /\ find_map_for_asid(a) = <<new_none>>
          /\ find_vspace_for_asid(a).status = "EXCEPTION_LOOKUP_FAULT"
          /\ find_vspace_for_asid(a).vspace_root = << >>

\* C6: find_vspace_for_asid reports a lookup fault (no root, root-invalid)
\* unless the mapping of the ASID is of kind VSpace, and then it returns
\* EXCEPTION_NONE with the stored root
C6_LookupFaultUnlessVSpace ==
    \A a \in ASIDs :
       LET r == find_vspace_for_asid(a) IN
       IF IsVSpaceAt(a)
       THEN /\ r.status = "EXCEPTION_NONE"
            /\ r.vspace_root = <<find_map_for_asid(a)[1].vspace_root>>
       ELSE /\ r.status = "EXCEPTION_LOOKUP_FAULT"
            /\ r.vspace_root = << >>
            /\ r.lookup_fault = "root_invalid"

\* C7: delete_asid on an empty directory slot, a None mapping or another
\* root, and delete_asid_pool on another pool than the installed one, end at
\* once and leave the directory, the pools, the TLB and the active root as
\* they were, with no hardware operation: a call goes past its guard only
\* with a matching mapping or pool, and a call that does not go past it
\* changes nothing
C7_StaleIsNoOp ==
    [][asid_op = Idle_op
         => /\ asid_op'.fn = "delete_asid"
                 => /\ find_map_for_asid(asid_op'.asid) # << >>
                    /\ find_map_for_asid(asid_op'.asid)[1] =
                          new_vspace(asid_op'.vspace)
            /\ asid_op'.fn = "delete_asid_pool"
                 => armKSASIDTable[DirIndex(asid_op'.asid)] = asid_op'.pool
            /\ (asid_op' = Idle_op /\ hw_log' # << >>
                  /\ hw_log'[1][1] \in {"delete_asid", "delete_asid_pool"})
                 => /\ Len(hw_log') = 1
                    /\ UNCHANGED <<armKSASIDTable, pool_mem, tlb, ttbr>>]_vars

\* a delete_asid ended at once while a mapping is live and cached in the TLB
C7_Witness ==
    /\ asid_op = Idle_op
    /\ hw_log = <<HwEv("delete_asid", 0)>>
    /\ tlb # {}
    /\ \E a \in ASIDs : IsVSpaceAt(a) /\ ttbr.asid = a

\* the invalidations delete_asid_pool owes for the slots from offset o on
RECURSIVE PoolInvalidations(_, _, _)
PoolInvalidations(base, pool, o) ==
    IF o = Pow2(asidLowBits) THEN << >>
    ELSE (IF pool_mem[pool][o].type = asid_map_asid_map_vspace
          THEN <<HwEv("invalidate_local_tlb_asid", base + o)>> ELSE << >>)
         \o PoolInvalidations(base, pool, o + 1)

\* C8: a matching delete_asid_pool visits every slot, invalidates the TLB
\* for exactly the VSpace slots, then empties its directory slot (so that no
\* ASID of the pool resolves any more), then calls set_vm_root(cap) and ends
\* with its result; no other directory slot and no pool memory changes
C8_PoolDeletion ==
    [][asid_op.fn = "delete_asid_pool"
         => /\ \A i \in DirSlots \ {DirIndex(asid_op.asid)} :
                  armKSASIDTable'[i] = armKSASIDTable[i]
            /\ pool_mem' = pool_mem
            /\ asid_op' = Idle_op
                 => /\ asid_op.offset = Pow2(asidLowBits)
                    /\ hw_log' = <<HwEv("delete_asid_pool", 0)>>
                          \o PoolInvalidations(asid_op.asid, asid_op.pool, 0)
                          \o <<HwEv("clear_dir", DirIndex(asid_op.asid)),
                               HwEv("set_vm_root", 0)>>
                    /\ armKSASIDTable'[DirIndex(asid_op.asid)] = 0
                    /\ \A a \in ASIDs :
                          DirIndex(a) = DirIndex(asid_op.asid)
                          => find_map_for_asid(a)' = << >>
                    /\ ttbr' = set_vm_root(asid_op.cap)]_vars

\* a pool with two VSpace slots was deleted: two invalidations, then the
\* directory slot, then set_vm_root
C8_Witness ==
    /\ asid_op = Idle_op
    /\ Len(hw_log) = 5
    /\ hw_log[1] = HwEv("delete_asid_pool", 0)
    /\ hw_log[5] = HwEv("set_vm_root", 0)

\* C16: every ASID splits into a valid directory index and a valid pool
\* index, from which it can be put together again, and no two ASIDs share
\* both; a mapping installed at the slot of an ASID whose pool is installed
\* is what find_map_for_asid of that ASID returns, and the reads of all other
\* ASIDs stay as they were; after write_it_asid_pool, find_map_for_asid of
\* IT_ASID is the VSpace mapping of the given root
C16_AsidRoundTrip ==
    /\ \A a \in ASIDs :
          /\ DirIndex(a) \in DirSlots
          /\ SlotIndex(a) \in PoolSlots
          /\ a = DirIndex(a) * Pow2(asidLowBits) + SlotIndex(a)
    /\ \A a, b \in ASIDs :
          (DirIndex(a) = DirIndex(b) /\ SlotIndex(a) = SlotIndex(b)) => a = b
    /\ [][/\ (pool_mem' # pool_mem /\ hw_log' = << >>
                 /\ armKSASIDTable' = armKSASIDTable)
                => \E a \in ASIDs, r \in Roots :
                      /\ assign_asid(a, r)
                      /\ find_map_for_asid(a)' = <<new_vspace(r)>>
                      /\ \A b \in ASIDs \ {a} :
                            find_map_for_asid(b)' = find_map_for_asid(b)
          /\ \A r \in Roots :
                (hw_log' = <<HwEv("write_it_asid_pool", r)>> /\ pool_mem' # pool_mem)
                => /\ find_map_for_asid(IT_ASID)' = <<new_vspace(r)>>
                   /\ \A b \in ASIDs \ {IT_ASID} :
                         DirIndex(b) # DirIndex(IT_ASID)
                         => find_map_for_asid(b)' = find_map_for_asid(b)]_vars

\* the initial task's mapping is read back at IT_ASID, and a root installed
\* at the highest ASID is read back there while the ASIDs that share its
\* pool or its slot index read None
C16_Witness ==
    LET top == Pow2(asidHighBits + asidLowBits) - 1 IN
    /\ \E r \in Roots : find_map_for_asid(IT_ASID) = <<new_vspace(r)>>
    /\ \E r \in Roots : find_map_for_asid(top) = <<new_vspace(r)>>
    /\ find_map_for_asid(top - 1) = <<new_none>>
    /\ find_map_for_asid(SlotIndex(top)) = <<new_none>>

\* ------------------------------------------------- notification, continued
QueuesOf(t) == {n \in Ntfns : InQueue(t, n)}
Occurrences(q, t) == Cardinality({i \in 1..Len(q) : q[i] = t})

C18_PanicUnreachable ==
    /\ Init => []~Panicked
    /\ [][/\ ~Panicked
          /\ \A n \in Ntfns, b \in Badges :
                (events' # << >> /\ events'[1] = Ev("send_signal", n, 0, b))
                => IF ntfn_state[n] = "Waiting" /\ queue_head[n] = 0
                   THEN /\ events' = <<Ev("send_signal", n, 0, b),
                                       Ev("panic", n, 0, 0)>>
                        /\ UNCHANGED <<ntfn_vars, tcb_vars>>
                   ELSE ~Panicked']_vars

\* send_signal met the Waiting notification with an empty queue and stopped
C18_Witness ==
    /\ Panicked
    /\ Called(events, "send_signal", 1)
    /\ ntfn_state[1] = "Waiting"
    /\ queue_head[1] = 0

C11_ReceiveActive ==
    [][\A n \in Ntfns, t \in Threads, blk \in {0, 1} :
         (events' # << >> /\ events'[1] = Ev("receive_signal", n, t, blk))
         => /\ ntfn_state[n] = "Active"
                 => /\ events' = <<Ev("receive_signal", n, t, blk),
                                   Ev("set_register", n, t, msg_identifier[n])>>
                    /\ ntfn_state'[n] = "Idle"
                    /\ ~InQueue(t, n)'
                    /\ UNCHANGED <<queue_head, queue_tail, bound_tcb, tcb_vars>>
            /\ ntfn_state[n] # "Active"
                 => \A i \in 2..Len(events') :
                       events'[i][1] = "set_register" => events'[i][4] = 0
            /\ (Called(events, "receive_signal", n) /\ Len(events) = 2
                   /\ events[2][4] # 0)
                 => /\ ntfn_state[n] = "Idle"
                    /\ Len(events') = 2 => events'[2][4] = 0]_vars

\* a blocking receive took the accumulated word 3 and the thread runs on
C11_Witness ==
    /\ events = <<Ev("receive_signal", 1, 2, 1), Ev("set_register", 1, 2, 3)>>
    /\ ntfn_state[1] = "Idle"
    /\ tcbState[2] = "Running"

Without(q, t) == SelectSeq(q, LAMBDA x : x # t)

\* C17: cancel_signal of a queued thread (head, tail or middle) removes
\* exactly that thread and keeps the order of the others, leaves the thread
\* Inactive, and leaves the notification Idle if the queue became empty and
\* Waiting otherwise; message word and bound thread do not change
C17_CancelSignal ==
    [][\A n \in Ntfns, t \in Threads :
         (events' # << >> /\ events'[1] = Ev("cancel_signal", n, t, 0))
         => /\ InQueue(t, n)
            /\ QueueSeq(n)' = Without(waitOrder[n], t)
            /\ Len(QueueSeq(n)') = Len(QueueSeq(n)) - 1
            /\ queue_tail'[n] = IF QueueSeq(n)' = << >> THEN 0
                                ELSE QueueSeq(n)'[Len(QueueSeq(n)')]
            /\ tcbState' = [tcbState EXCEPT ![t] = "Inactive"]
            /\ ntfn_state'[n] = IF QueueSeq(n)' = << >> THEN "Idle" ELSE "Waiting"
            /\ UNCHANGED <<msg_identifier, bound_tcb>>]_vars

\* the middle one of three queued threads was cancelled: its own links still
\* name its former neighbours, which are now linked to each other
C17_Witness ==
    /\ Called(events, "cancel_signal", 1)
    /\ Len(QueueSeq(1)) = 2
    /\ \E t \in Threads :
          /\ events[1][3] = t
          /\ tcbState[t] = "Inactive"
          /\ tcbEPPrev[t] = QueueSeq(1)[1]
          /\ tcbEPNext[t] = QueueSeq(1)[2]

\* ------------------------------------------------------------ fault entry
FaultCalled(log, name) == log # << >> /\ log[1][1] = name

\* C13: handle_vm_fault(ARMDataAbort) stores a VMFault with the value of the
\* fault-address register, the syndrome and prefetch flag 0;
\* handle_vm_fault(ARMPrefetchAbort) stores a VMFault with the current
\* thread's saved FaultIP, the syndrome and prefetch flag 1; both return
\* EXCEPTION_FAULT, and the record is what current_fault holds afterwards
C13_FaultClassification ==
    [][/\ handle_vm_fault(ARMDataAbort) =
             [panic |-> FALSE, status |-> "EXCEPTION_FAULT",
              fault |-> [type |-> "VMFault", a |-> far, b |-> esr, c |-> 0]]
       /\ handle_vm_fault(ARMPrefetchAbort) =
             [panic |-> FALSE, status |-> "EXCEPTION_FAULT",
              fault |-> [type |-> "VMFault", a |-> FaultIP[ksCurThread],
                         b |-> esr, c |-> 1]]
       /\ \A kind \in {ARMDataAbort, ARMPrefetchAbort} :
             (FaultCalled(fault_log', "handleVMFaultEvent")
                /\ fault_log'[1][3] = kind)
             => LET rec == [type |-> "VMFault",
                            a |-> IF kind = ARMDataAbort THEN far
                                  ELSE FaultIP[ksCurThread],
                            b |-> esr,
                            c |-> IF kind = ARMDataAbort THEN 0 ELSE 1]
                IN  /\ current_fault' = rec
                    /\ fault_log'[2] = FEv("current_fault", ksCurThread, 0, rec)
                    /\ UNCHANGED <<far, esr, FaultIP>>]_vars

\* a prefetch abort of thread 2 recorded its FaultIP, which differs from the
\* fault-address register and from the FaultIP of the thread that runs next
C13_Witness ==
    /\ FaultCalled(fault_log, "handleVMFaultEvent")
    /\ fault_log[1][2] = 2
    /\ fault_log[1][3] = ARMPrefetchAbort
    /\ current_fault = new_vm_fault(1, 1, 1)
    /\ far = 0
    /\ FaultIP[2] = 1
    /\ ksCurThread # 2
    /\ FaultIP[ksCurThread] = 0

\* C14: every run of handleUserLevelFault, and of handleVMFaultEvent with a
\* data or prefetch abort, does exactly this, once each and in this order:
\* write the new record to current_fault, handle_fault for the thread that
\* was current at entry, which reads that record, schedule, activateThread,
\* return EXCEPTION_NONE
C14_FaultPipeline ==
    [][(\/ FaultCalled(fault_log', "handleUserLevelFault")
        \/ /\ FaultCalled(fault_log', "handleVMFaultEvent")
           /\ fault_log'[1][3] \in {ARMDataAbort, ARMPrefetchAbort})
       => LET t == ksCurThread
              rec == current_fault'
          IN  /\ rec.type = IF fault_log'[1][1] = "handleUserLevelFault"
                            THEN "UserException" ELSE "VMFault"
              /\ fault_log'[1][2] = t
              /\ SubSeq(fault_log', 2, Len(fault_log')) =
                    <<FEv("current_fault", t, 0, rec),
                      FEv("handle_fault", t, 0, rec),
                      FEv("schedule", t, 0, NullFault),
                      FEv("activateThread", ksCurThread', 0, NullFault),
                      FEv("EXCEPTION_NONE", ksCurThread', 0, NullFault)>>]_vars

\* a user-level fault of thread 1 was delivered with the record built from
\* its two words, and thread 3 was scheduled
C14_Witness ==
    /\ FaultCalled(fault_log, "handleUserLevelFault")
    /\ Len(fault_log) = 6
    /\ fault_log[1][2] = 1
    /\ fault_log[3] = FEv("handle_fault", 1, 0, new_user_exeception(1, 0))
    /\ current_fault = new_user_exeception(1, 0)
    /\ ksCurThread = 3

\* C19: handleVMFaultEvent with a selector other than ARMDataAbort and
\* ARMPrefetchAbort panics in handle_vm_fault: current_fault is not written,
\* handle_fault, schedule and activateThread are not called, and nothing
\* runs after the panic
C19_UndefinedKindFatal ==
    [][/\ ~FaultPanicked
       /\ (FaultCalled(fault_log', "handleVMFaultEvent")
             /\ fault_log'[1][3] \notin {ARMDataAbort, ARMPrefetchAbort})
          => /\ fault_log' = <<fault_log'[1],
                               FEv("panic", ksCurThread, fault_log'[1][3], NullFault)>>
             /\ UNCHANGED <<current_fault, ksCurThread, far, esr, FaultIP>>
       /\ FaultPanicked'
          => /\ FaultCalled(fault_log', "handleVMFaultEvent")
             /\ fault_log'[1][3] \notin {ARMDataAbort, ARMPrefetchAbort}]_vars

\* the kernel stopped on selector 2 with an earlier fault record untouched
C19_Witness ==
    /\ FaultPanicked
    /\ fault_log[1][3] = 2
    /\ current_fault.type = "UserException"
    /\ ksCurThread = 2
====
